---- MODULE Spec2Model ----
(***************************************************************************)
(* Model of the URL shortener's server routes (routes/urlShortener.ts):    *)
(* the in-memory record store urlDatabase, the audit log logs, and the     *)
(* four request handlers shortenUrl, redirectUrl, getStatistics, getLogs.  *)
(*                                                                         *)
(* The handlers are synchronous functions run by Node's single-threaded    *)
(* event loop, so each request is one atomic action.  The wall clock is    *)
(* read several times inside a handler and may advance between two reads.  *)
(* Times are millisecond time values; an ISO-8601 string is modelled as    *)
(* the record [iso |-> t] of the millisecond it denotes.  Strings that the *)
(* code inspects character by character (shortcodes) are sequences of      *)
(* one-character strings.  Arrays are heap objects: a record refers to its *)
(* clicks array by reference, as in JavaScript.                            *)
(***************************************************************************)
EXTENDS Integers, Sequences, FiniteSets, TLC

VARIABLES
    urlDatabase,  \* let urlDatabase: UrlRecord[]           (line 5)
    heap,         \* the clicks arrays, heap[ref]; a UrlRecord holds ref
    logs,         \* let logs: LogEntry[]                   (line 6)
    clock,        \* what Date.now() returns
    ticks,        \* how many times the clock has advanced so far
    res,          \* the response sent for the last request
    call,         \* the last handler run and the `now` it read
    snapshot,     \* the response object of the last statistics call
    pending       \* the shorten request that is being run step by step

vars == <<urlDatabase, heap, logs, clock, ticks, res, call, snapshot, pending>>

----------------------------------------------------------------------------
\* Bounds of the model.

\* The audit log holds at most this many entries.
MaxLogs == 6

\* The clock advances at most this many times.
MaxTicks == 2

----------------------------------------------------------------------------
\* Program constants.

\* generateShortcode = (length: number = 6)
ShortcodeLength == 6

\* validityMinutes * 60 * 1000
MsPerMinute == 60 * 1000

\* const chars = 'abc...XYZ0123456789'
chars ==
    << "a","b","c","d","e","f","g","h","i","j","k","l","m",
       "n","o","p","q","r","s","t","u","v","w","x","y","z",
       "A","B","C","D","E","F","G","H","I","J","K","L","M",
       "N","O","P","Q","R","S","T","U","V","W","X","Y","Z",
       "0","1","2","3","4","5","6","7","8","9" >>

\* chars.charAt(i), i counted from 0
charAt(i) == chars[i + 1]

\* The character class [a-zA-Z0-9]
AlphaNum == { chars[i] : i \in 1..Len(chars) }

----------------------------------------------------------------------------
\* Dates and strings.

\* Date.prototype.toISOString: millisecond precision, so it loses nothing.
toISOString(t) == [iso |-> t]

\* new Date(isoString).getTime()
DateParse(s) == s.iso

\* The decimal digits of a natural number.
Digit(d) == charAt(52 + d)

RECURSIVE toString(_)
\* Number.prototype.toString for a non-negative integer
toString(n) == IF n < 10 THEN << Digit(n) >>
               ELSE toString(n \div 10) \o << Digit(n % 10) >>

----------------------------------------------------------------------------
\* Inputs.

\* The positions Math.floor(Math.random() * chars.length) of one call of
\* generateShortcode: the streams that spell "aaaaaa" and "999999".
RandomSample ==
    { [i \in 1..ShortcodeLength |-> 0],
      [i \in 1..ShortcodeLength |-> 61] }

\* Shortcodes a client may send.
Sabc123 == << "a","b","c","1","2","3" >>
Saaaaaa == << "a","a","a","a","a","a" >>
Szzzzzz == << "z","z","z","z","z","z" >>
Sdash   == << "a","-","b" >>
Sempty  == << >>

\* validityMinutes as a JavaScript number: the rational num/den, den > 0.
Num(n, d) == [num |-> n, den |-> d]

ValiditySample == { Num(0, 1), Num(-1, 1), Num(3, 2), Num(1, 1) }

UrlSample == { "", "not a url", "https://example.com/a" }

CustomSample == { Sempty, Sdash, Sabc123, Saaaaaa }

\* req.body of POST /api/shorten; a field that is undefined is absent.
Bodies ==
    { [originalUrl |-> u, validityMinutes |-> v, customShortcode |-> c] :
        u \in UrlSample, v \in ValiditySample, c \in CustomSample }
    \cup { [originalUrl |-> u, validityMinutes |-> v] :
        u \in UrlSample, v \in ValiditySample }
    \cup { [originalUrl |-> "https://example.com/a"],
           [validityMinutes |-> Num(1, 1)] }

\* req.params.shortcode of GET /api/redirect/:shortcode
ParamSample == { Sempty, Sabc123, Saaaaaa, Szzzzzz }

\* What the handlers read from the request besides body and params.
\* A header that is not sent is absent.
ReqSample ==
    { [ip |-> "127.0.0.1", protocol |-> "http", host |-> "localhost:8080"],
      [ip |-> "203.0.113.9", protocol |-> "http", host |-> "localhost:8080",
       Referer |-> "https://ref.example/"] }

\* How far the clock may advance between two reads inside one handler.
Drift == { 0, 1 }

\* How far the clock may advance between two requests.
Pause == { MsPerMinute }

\* The clock reads t, t + d: d > 0 is one advance of the clock.
Adv(d) == IF d > 0 THEN 1 ELSE 0

----------------------------------------------------------------------------
\* Helpers of routes/urlShortener.ts.

\* The fields of a log entry's details that the model keeps.
LoggedFields == { "error", "shortcode", "totalClicks" }

\* log with the push left out for the redirect errors.
log_SkipErrors(ls, action, details) ==
    IF action = "REDIRECT_ERROR" THEN ls
    ELSE Append(ls, [action  |-> action,
                     details |-> [f \in (DOMAIN details) \cap LoggedFields |->
                                     details[f]]])

\* logs.push(logEntry): the entry's action and, of its details, LoggedFields
\* (timestamp, ip and userAgent of the entry are left out).
\* The attempt entry of the redirect handler left out.
log_SkipAttempts(ls, action, details) ==
    IF action = "REDIRECT_ATTEMPT" THEN ls
    ELSE Append(ls, [action  |-> action,
                     details |-> [f \in (DOMAIN details) \cap LoggedFields |->
                                     details[f]]])

log_Front(ls, action, details) ==
    << [action  |-> action,
        details |-> [f \in (DOMAIN details) \cap LoggedFields |->
                        details[f]]] >> \o ls

log(ls, action, details) ==
    Append(ls, [action  |-> action,
                details |-> [f \in (DOMAIN details) \cap LoggedFields |->
                                details[f]]])

\* details || {} when log is called without details
NoDetails == [f \in {} |-> TRUE]

\* generateShortcode(): result += chars.charAt(floor(random * chars.length))
generateShortcode_Short(rnd) ==
    [i \in 1..(ShortcodeLength - 1) |-> charAt(rnd[i])]

generateShortcode(rnd) == [i \in 1..ShortcodeLength |-> charAt(rnd[i])]

\* new URL(url) succeeds: of the sampled strings, the absolute URLs.
isValidUrl(url) == url \in { "https://example.com/a" }

\* /^[a-zA-Z0-9]+$/.test(shortcode)
isValidShortcode(shortcode) ==
    /\ Len(shortcode) >= 1
    /\ \A i \in 1..Len(shortcode) : shortcode[i] \in AlphaNum

\* shortcodeExists comparing the newest record only.
shortcodeExists_NewestOnly(db, shortcode) ==
    db # << >> /\ db[Len(db)].shortcode = shortcode

\* shortcodeExists skipping the records flagged expired.
shortcodeExists_LiveOnly(db, shortcode) ==
    \E i \in 1..Len(db) : ~db[i].isExpired /\ db[i].shortcode = shortcode

\* urlDatabase.some(record => record.shortcode === shortcode)
shortcodeExists(db, shortcode) ==
    \E i \in 1..Len(db) : db[i].shortcode = shortcode

\* ip.includes('127.0.0.1') || ip.includes('localhost'), on the sampled ips
getLocationFromIP(ip) ==
    IF ip \in { "127.0.0.1" } THEN "Local" ELSE "Unknown Location"

\* Number.isInteger(validityMinutes)
IsInteger(v) == v.num % v.den = 0

----------------------------------------------------------------------------
\* POST /api/shorten

\* !originalUrl: undefined or the empty string
NoUrl(body) == "originalUrl" \notin DOMAIN body \/ body.originalUrl = ""

\* The validity check without its Number.isInteger part.
BadValidity_NoIntegerCheck(body) ==
    \/ "validityMinutes" \notin DOMAIN body
    \/ body.validityMinutes.num = 0
    \/ body.validityMinutes.num <= 0

\* !validityMinutes || validityMinutes <= 0 || !Number.isInteger(validityMinutes)
BadValidity(body) ==
    \/ "validityMinutes" \notin DOMAIN body
    \/ body.validityMinutes.num = 0
    \/ body.validityMinutes.num <= 0
    \/ ~IsInteger(body.validityMinutes)

\* if (shortcode): a custom shortcode that is neither undefined nor ""
HasCustom(body) ==
    "customShortcode" \in DOMAIN body /\ body.customShortcode # << >>

\* The validity check moved in front of the URL checks.
ShortenError_ValidityFirst(db, body) ==
    IF BadValidity(body) THEN "Validity must be a positive integer"
    ELSE IF NoUrl(body) THEN "Original URL is required"
    ELSE IF ~isValidUrl(body.originalUrl) THEN "Invalid URL format"
    ELSE IF HasCustom(body) /\ ~isValidShortcode(body.customShortcode)
         THEN "Shortcode must be alphanumeric"
    ELSE IF HasCustom(body) /\ shortcodeExists(db, body.customShortcode)
         THEN "Shortcode already exists"
    ELSE ""

\* The validations of shortenUrl in their order: the message of the first
\* one that fails, "" when all pass.
ShortenError(db, body) ==
    IF NoUrl(body) THEN "Original URL is required"
    ELSE IF ~isValidUrl(body.originalUrl) THEN "Invalid URL format"
    ELSE IF BadValidity(body) THEN "Validity must be a positive integer"
    ELSE IF HasCustom(body) /\ ~isValidShortcode(body.customShortcode)
         THEN "Shortcode must be alphanumeric"
    ELSE IF HasCustom(body) /\ shortcodeExists(db, body.customShortcode)
         THEN "Shortcode already exists"
    ELSE ""

\* validityMinutes * 60 * 1000, for an integer validityMinutes
ValidityMs(v) == (v.num \div v.den) * MsPerMinute

\* const urlRecord: UrlRecord = {...}.  t110, t111 and t115 are the clock
\* values read at lines 110, 111 and 115; ref is the new clicks array.
NewRecord(req, body, shortcode, t110, t111, t115, ref) ==
    [ id              |-> toString(t115),
      originalUrl     |-> body.originalUrl,
      shortcode       |-> shortcode,
      shortenedUrl    |-> << req.protocol, "://", req.host, "/r/", shortcode >>,
      createdAt       |-> toISOString(t111),
      expiryTime      |-> toISOString(t110 + ValidityMs(body.validityMinutes)),
      validityMinutes |-> body.validityMinutes,
      totalClicks     |-> 0,
      clicks          |-> ref,
      isExpired       |-> FALSE ]

\* A request that fails a validation: status 400 and the message.
shortenUrlError(body) ==
    /\ ShortenError(urlDatabase, body) # ""
    /\ LET msg == ShortenError(urlDatabase, body)
           l1  == log(logs, "URL_SHORTEN_ATTEMPT", body)
       IN  /\ res' = [handler |-> "shortenUrl", status |-> 400,
                      body |-> [error |-> msg]]
           /\ logs' = log(l1, "URL_SHORTEN_ERROR", [error |-> msg])
    /\ call' = [handler |-> "shortenUrl", now |-> clock]
    /\ UNCHANGED <<urlDatabase, heap, clock, ticks, snapshot, pending>>

\* A request that passes the validations.  Without a custom shortcode the
\* do/while loop ends with the first generated candidate that is not in the
\* store: rnd is the random stream of that last iteration.
shortenUrlSuccess(req, body, rnd, d1, d2) ==
    /\ ShortenError(urlDatabase, body) = ""
    /\ ticks + Adv(d1) + Adv(d2) <= MaxTicks
    /\ LET shortcode == IF HasCustom(body) THEN body.customShortcode
                        ELSE generateShortcode(rnd)
           t110 == clock
           t111 == t110 + d1
           t115 == t111 + d2
           ref  == Len(heap) + 1
           urlRecord == NewRecord(req, body, shortcode, t110, t111, t115, ref)
           l1 == log(logs, "URL_SHORTEN_ATTEMPT", body)
       IN  /\ ~shortcodeExists(urlDatabase, shortcode)
           /\ heap' = Append(heap, << >>)
           /\ urlDatabase' = Append(urlDatabase, urlRecord)
           /\ logs' = log(l1, "URL_SHORTENED_SUCCESS",
                          [shortcode |-> shortcode,
                           originalUrl |-> body.originalUrl,
                           expiryTime |-> urlRecord.expiryTime])
           /\ res' = [handler |-> "shortenUrl", status |-> 200,
                      body |-> [shortenedUrl |-> urlRecord.shortenedUrl,
                                shortcode    |-> urlRecord.shortcode,
                                expiryTime   |-> urlRecord.expiryTime,
                                originalUrl  |-> urlRecord.originalUrl]]
           /\ clock' = t115
           /\ ticks' = ticks + Adv(d1) + Adv(d2)
           /\ call' = [handler |-> "shortenUrl", now |-> t110]
    /\ UNCHANGED <<snapshot, pending>>

shortenUrl ==
    /\ Len(logs) + 2 <= MaxLogs
    /\ \E body \in Bodies :
          \/ shortenUrlError(body)
          \/ \E req \in ReqSample, rnd \in RandomSample, d1 \in Drift, d2 \in Drift :
                shortenUrlSuccess(req, body, rnd, d1, d2)

----------------------------------------------------------------------------
\* POST /api/shorten, statement by statement: the request that is inside
\* shortenUrl and the statement it has reached.  The handler is synchronous,
\* so the event loop serves no other request until it returns.

\* No shorten request is inside the handler.
NoRequest == [active |-> FALSE]

\* Every handler was left turned into a thread that runs beside the others.
Idle_Threads == TRUE

\* The event loop is free: no handler is in the middle of its statements.
Idle == ~pending.active

\* Lines 61-101 and the first pass of the do body: the validations, then
\* the custom shortcode or the first generated candidate.
BeginShorten(req, body, rnd) ==
    /\ Idle
    /\ Len(logs) + 2 <= MaxLogs
    /\ ShortenError(urlDatabase, body) = ""
    /\ logs' = log(logs, "URL_SHORTEN_ATTEMPT", body)
    /\ pending' = [active    |-> TRUE,
                   req       |-> req,
                   body      |-> body,
                   stage     |-> IF HasCustom(body) THEN "insert" ELSE "while",
                   shortcode |-> IF HasCustom(body) THEN body.customShortcode
                                 ELSE generateShortcode(rnd)]
    /\ call' = [handler |-> "shortenUrl", now |-> clock]
    /\ UNCHANGED <<urlDatabase, heap, clock, ticks, res, snapshot>>

\* while (shortcodeExists(shortcode)) is true: the do body runs again.
RetryGenerate(rnd) ==
    /\ pending.active
    /\ pending.stage = "while"
    /\ shortcodeExists(urlDatabase, pending.shortcode)
    /\ pending' = [pending EXCEPT !.shortcode = generateShortcode(rnd)]
    /\ UNCHANGED <<urlDatabase, heap, logs, clock, ticks, res, call, snapshot>>

\* while (shortcodeExists(shortcode)) is false: the loop is left.
LeaveLoop ==
    /\ pending.active
    /\ pending.stage = "while"
    /\ ~shortcodeExists(urlDatabase, pending.shortcode)
    /\ pending' = [pending EXCEPT !.stage = "insert"]
    /\ UNCHANGED <<urlDatabase, heap, logs, clock, ticks, res, call, snapshot>>

\* Lines 109-143: the record is built and pushed, the success is logged and
\* the response is sent.
InsertRecord(d1, d2) ==
    /\ pending.active
    /\ pending.stage = "insert"
    /\ ticks + Adv(d1) + Adv(d2) <= MaxTicks
    /\ LET t110 == clock
           t111 == t110 + d1
           t115 == t111 + d2
           urlRecord == NewRecord(pending.req, pending.body, pending.shortcode,
                                  t110, t111, t115, Len(heap) + 1)
       IN  /\ heap' = Append(heap, << >>)
           /\ urlDatabase' = Append(urlDatabase, urlRecord)
           /\ logs' = log(logs, "URL_SHORTENED_SUCCESS",
                          [shortcode |-> urlRecord.shortcode,
                           originalUrl |-> urlRecord.originalUrl,
                           expiryTime |-> urlRecord.expiryTime])
           /\ res' = [handler |-> "shortenUrl", status |-> 200,
                      body |-> [shortenedUrl |-> urlRecord.shortenedUrl,
                                shortcode    |-> urlRecord.shortcode,
                                expiryTime   |-> urlRecord.expiryTime,
                                originalUrl  |-> urlRecord.originalUrl]]
           /\ clock' = t115
           /\ ticks' = ticks + Adv(d1) + Adv(d2)
    /\ pending' = NoRequest
    /\ UNCHANGED <<call, snapshot>>

----------------------------------------------------------------------------
\* GET /api/redirect/:shortcode

\* find falling back to the first record when nothing matches.
Find_Fallback(db, shortcode) ==
    IF \E i \in 1..Len(db) : db[i].shortcode = shortcode
    THEN CHOOSE i \in 1..Len(db) :
            /\ db[i].shortcode = shortcode
            /\ \A j \in 1..(i - 1) : db[j].shortcode # shortcode
    ELSE IF db # << >> THEN 1 ELSE 0

\* urlDatabase.find(record => record.shortcode === shortcode): the index of
\* the first match, 0 for undefined.
Find(db, shortcode) ==
    IF shortcodeExists(db, shortcode)
    THEN CHOOSE i \in 1..Len(db) :
            /\ db[i].shortcode = shortcode
            /\ \A j \in 1..(i - 1) : db[j].shortcode # shortcode
    ELSE 0

\* The expiry comparison turned around.
Expired_Reversed(urlRecord, now) == now < DateParse(urlRecord.expiryTime)

\* The expiry comparison made inclusive.
Expired_Inclusive(urlRecord, now) == now >= DateParse(urlRecord.expiryTime)

\* now > expiryTime
Expired(urlRecord, now) == now > DateParse(urlRecord.expiryTime)

\* const clickData: ClickData = {...}, t186 the clock value read at line 186
ClickData(req, t186) ==
    [ timestamp |-> toISOString(t186),
      source    |-> IF "Referer" \in DOMAIN req THEN req.Referer ELSE "Direct",
      location  |-> getLocationFromIP(req.ip),
      userAgent |-> "unknown",
      ip        |-> req.ip ]

\* unshift in place of push: the new click goes to the front.
PushClick_Front(h, ref, clickData) ==
    [h EXCEPT ![ref] = << clickData >> \o @]

\* urlRecord.clicks.push(clickData)
PushClick(h, ref, clickData) == [h EXCEPT ![ref] = Append(@, clickData)]

\* The increment left out.
CountClick_Skipped(db, i) == db

\* urlRecord.totalClicks++
\* The count of every record raised, not only the served one's.
CountClick_All(db, i) ==
    [j \in 1..Len(db) |-> [db[j] EXCEPT !.totalClicks = @ + 1]]

CountClick_Twice(db, i) == [db EXCEPT ![i].totalClicks = @ + 2]

CountClick(db, i) == [db EXCEPT ![i].totalClicks = @ + 1]

\* urlRecord.isExpired = true
\* The stale record removed instead of flagged.
SetExpired_Delete(db, i) == SubSeq(db, 1, i - 1) \o SubSeq(db, i + 1, Len(db))

SetExpired(db, i) == [db EXCEPT ![i].isExpired = TRUE]

redirectUrl(req, shortcode, d) ==
    /\ Len(logs) + 2 <= MaxLogs
    /\ LET l1  == log(logs, "REDIRECT_ATTEMPT", [shortcode |-> shortcode])
           i   == Find(urlDatabase, shortcode)
           now == clock
       IN
       IF shortcode = << >> THEN
          /\ d = 0
          /\ logs' = log(l1, "REDIRECT_ERROR", [error |-> "Shortcode is required"])
          /\ res' = [handler |-> "redirectUrl", status |-> 400,
                     body |-> [error |-> "Shortcode is required"]]
          /\ UNCHANGED <<urlDatabase, heap, clock, ticks>>
       ELSE IF i = 0 THEN
          /\ d = 0
          /\ logs' = log(l1, "REDIRECT_ERROR",
                         [error |-> "Shortened URL not found",
                          shortcode |-> shortcode])
          /\ res' = [handler |-> "redirectUrl", status |-> 404,
                     body |-> [error |-> "Shortened URL not found"]]
          /\ UNCHANGED <<urlDatabase, heap, clock, ticks>>
       ELSE IF Expired(urlDatabase[i], now) THEN
          /\ d = 0
          /\ urlDatabase' = SetExpired(urlDatabase, i)
          /\ logs' = log(l1, "REDIRECT_ERROR",
                         [error |-> "Shortened URL has expired",
                          shortcode |-> shortcode])
          /\ res' = [handler |-> "redirectUrl", status |-> 410,
                     body |-> [error |-> "Shortened URL has expired"]]
          /\ UNCHANGED <<heap, clock, ticks>>
       ELSE
          /\ ticks + Adv(d) <= MaxTicks
          /\ heap' = PushClick(heap, urlDatabase[i].clicks,
                               ClickData(req, now + d))
          /\ urlDatabase' = CountClick(urlDatabase, i)
          /\ logs' = log(l1, "REDIRECT_SUCCESS",
                         [shortcode   |-> shortcode,
                          originalUrl |-> urlDatabase[i].originalUrl,
                          totalClicks |-> urlDatabase'[i].totalClicks])
          /\ res' = [handler |-> "redirectUrl", status |-> 200,
                     body |-> [originalUrl |-> urlDatabase[i].originalUrl,
                               success |-> TRUE]]
          /\ clock' = now + d
          /\ ticks' = ticks + Adv(d)
    /\ call' = [handler |-> "redirectUrl", now |-> clock]
    /\ UNCHANGED <<snapshot, pending>>

----------------------------------------------------------------------------
\* GET /api/statistics

\* The flag toggled instead of set.
MarkExpired_Toggle(record, now) ==
    IF DateParse(record.expiryTime) < now
    THEN [record EXCEPT !.isExpired = ~@]
    ELSE record

\* The scan's comparison made inclusive.
MarkExpired_Inclusive(record, now) ==
    IF DateParse(record.expiryTime) <= now
    THEN [record EXCEPT !.isExpired = TRUE]
    ELSE record

\* if (new Date(record.expiryTime) < now) record.isExpired = true
MarkExpired(record, now) ==
    IF DateParse(record.expiryTime) < now
    THEN [record EXCEPT !.isExpired = TRUE]
    ELSE record

RECURSIVE SumClicks(_)
\* urlDatabase.reduce((sum, record) => sum + record.totalClicks, 0)
SumClicks(db) ==
    IF db = << >> THEN 0
    ELSE SumClicks(SubSeq(db, 1, Len(db) - 1)) + db[Len(db)].totalClicks

\* The filter's negation dropped: the expired records are counted.
ActiveUrls_Expired(db) == Cardinality({ i \in 1..Len(db) : db[i].isExpired })

\* urlDatabase.filter(record => !record.isExpired).length
ActiveUrls(db) == Cardinality({ i \in 1..Len(db) : ~db[i].isExpired })

\* { ...record }: a new object with the record's fields; clicks is copied as
\* the reference it is.
CopyRecord(record) == [f \in DOMAIN record |-> record[f]]

\* const response: StatisticsResponse = {...}
StatisticsResponse(db) ==
    [ urls        |-> [i \in 1..Len(db) |-> CopyRecord(db[i])],
      totalUrls   |-> Len(db),
      totalClicks |-> SumClicks(db),
      activeUrls  |-> ActiveUrls(db) ]

\* What a response object holds when it is read with the heap h:
\* JSON.stringify in res.json follows the clicks references.
Json(response, h) ==
    [response EXCEPT !.urls =
        [i \in 1..Len(response.urls) |->
            [response.urls[i] EXCEPT !.clicks = h[response.urls[i].clicks]]]]

getStatistics ==
    /\ Len(logs) + 2 <= MaxLogs
    /\ LET l1  == log(logs, "STATISTICS_REQUEST", NoDetails)
           now == clock
           db  == [i \in 1..Len(urlDatabase) |-> MarkExpired(urlDatabase[i], now)]
           response == StatisticsResponse(db)
       IN  /\ urlDatabase' = db
           /\ snapshot' = response
           /\ logs' = log(l1, "STATISTICS_SUCCESS",
                          [totalUrls   |-> response.totalUrls,
                           totalClicks |-> response.totalClicks,
                           activeUrls  |-> response.activeUrls])
           /\ res' = [handler |-> "getStatistics", status |-> 200,
                      body |-> Json(response, heap)]
    /\ call' = [handler |-> "getStatistics", now |-> clock]
    /\ UNCHANGED <<heap, clock, ticks, pending>>

----------------------------------------------------------------------------
\* GET /api/logs

\* req.query of GET /api/logs; limit is absent when it is not sent.
QuerySample ==
    { NoDetails,
      [limit |-> << "0" >>],
      [limit |-> << "2" >>],
      [limit |-> << "-", "1" >>],
      [limit |-> << "a", "b", "c" >>] }

Digits == { Digit(d) : d \in 0..9 }

DigitValue(c) == CHOOSE d \in 0..9 : Digit(d) = c

RECURSIVE DecimalValue(_)
\* The number a sequence of decimal digits denotes.
DecimalValue(ds) ==
    IF ds = << >> THEN 0
    ELSE 10 * DecimalValue(SubSeq(ds, 1, Len(ds) - 1)) + DigitValue(ds[Len(ds)])

\* parseInt(string): an optional sign, then the longest run of digits;
\* NaN when the run is empty or the argument is undefined.
NaN == [nan |-> TRUE, val |-> 0]

parseInt(query) ==
    IF "limit" \notin DOMAIN query THEN NaN
    ELSE LET s    == query.limit
             neg  == Len(s) >= 1 /\ s[1] = "-"
             body == IF Len(s) >= 1 /\ s[1] \in { "-", "+" } THEN Tail(s) ELSE s
             n    == CHOOSE k \in 0..Len(body) :
                        /\ \A j \in 1..k : body[j] \in Digits
                        /\ k < Len(body) => body[k + 1] \notin Digits
             v    == DecimalValue(SubSeq(body, 1, n))
         IN  IF n = 0 THEN NaN
             ELSE [nan |-> FALSE, val |-> IF neg THEN 0 - v ELSE v]

\* parseInt(req.query.limit as string) || 100
Limit(query) ==
    LET p == parseInt(query)
    IN  IF p.nan \/ p.val = 0 THEN 100 ELSE p.val

\* Array.prototype.slice(start)
slice(arr, start) ==
    LET len  == Len(arr)
        from == IF start < 0 THEN (IF len + start > 0 THEN len + start ELSE 0)
                ELSE (IF start < len THEN start ELSE len)
    IN  SubSeq(arr, from + 1, len)

getLogs(query) ==
    /\ res' = [handler |-> "getLogs", status |-> 200,
               body |-> [logs  |-> slice(logs, 0 - Limit(query)),
                         total |-> Len(logs)]]
    /\ call' = [handler |-> "getLogs", now |-> clock]
    /\ UNCHANGED <<urlDatabase, heap, logs, clock, ticks, snapshot, pending>>

----------------------------------------------------------------------------
\* The environment and the specification.

\* Time passes between two requests.
Tick(p) ==
    /\ ticks + 1 <= MaxTicks
    /\ clock' = clock + p
    /\ ticks' = ticks + 1
    /\ UNCHANGED <<urlDatabase, heap, logs, res, call, snapshot, pending>>

Init ==
    /\ urlDatabase = << >>
    /\ heap = << >>
    /\ logs = << >>
    /\ clock = 0
    /\ ticks = 0
    /\ res = [handler |-> "none", status |-> 0, body |-> NoDetails]
    /\ call = [handler |-> "none", now |-> 0]
    /\ snapshot = StatisticsResponse(<< >>)
    /\ pending = NoRequest

\* The audit query is served with no limit parameter here: its response
\* holds a copy of the log, and the store's handlers never read it.
Next ==
    \/ shortenUrl
    \/ \E req \in ReqSample, shortcode \in ParamSample, d \in Drift :
          redirectUrl(req, shortcode, d)
    \/ getStatistics
    \/ getLogs(NoDetails)
    \/ \E p \in Pause : Tick(p)

Spec == Init /\ [][Next]_vars

\* The requests with the audit query sent with every sampled query string.
Query == \E query \in QuerySample : getLogs(query)

NextLogs ==
    \/ shortenUrl
    \/ \E req \in ReqSample, shortcode \in ParamSample, d \in Drift :
          redirectUrl(req, shortcode, d)
    \/ getStatistics
    \/ Query

SpecLogs == Init /\ [][NextLogs]_vars

\* The shorten requests alone: what the handler answers depends on the
\* request and on the shortcodes in the store, which only it adds.
NextShorten == shortenUrl

SpecShorten == Init /\ [][NextShorten]_vars

\* One shorten request run statement by statement, the other shorten
\* requests served whole whenever the event loop is free.
OtherShorten == Idle /\ shortenUrl

Begin ==
    \E req \in ReqSample, body \in Bodies, rnd \in RandomSample :
        BeginShorten(req, body, rnd)

Retry == \E rnd \in RandomSample : RetryGenerate(rnd)

Insert == \E d1 \in Drift, d2 \in Drift : InsertRecord(d1, d2)

NextSteps ==
    \/ OtherShorten
    \/ Begin
    \/ Retry
    \/ LeaveLoop
    \/ Insert

\* A handler that has started keeps running: each of its statements is
\* executed when it is reached.
SpecSteps ==
    /\ Init
    /\ [][NextSteps]_vars
    /\ WF_vars(Retry)
    /\ WF_vars(LeaveLoop)
    /\ WF_vars(Insert)

----------------------------------------------------------------------------
\* Steps of the handlers, for the properties below.

\* The step is a shorten request with this body.
ShortenStep(body) ==
    /\ Len(logs) + 2 <= MaxLogs
    /\ IF ShortenError(urlDatabase, body) # ""
       THEN shortenUrlError(body)
       ELSE \E req \in ReqSample, rnd \in RandomSample,
               d1 \in Drift, d2 \in Drift :
               shortenUrlSuccess(req, body, rnd, d1, d2)

\* The step is a redirect request for this shortcode.
RedirectStep(shortcode) ==
    \E req \in ReqSample, d \in Drift : redirectUrl(req, shortcode, d)

\* The click sequence of the i-th record.
Clicks(i) == heap[urlDatabase[i].clicks]

\* The record with this shortcode exists and its expiry time is before t.
ExpiredRecord(shortcode, t) ==
    \E i \in 1..Len(urlDatabase) :
        /\ urlDatabase[i].shortcode = shortcode
        /\ t > DateParse(urlDatabase[i].expiryTime)

\* The log entries with this action.
Entries(action) == { k \in 1..Len(logs) : logs[k].action = action }

\* The log holds this error message.
Logged(error) ==
    \E k \in 1..Len(logs) :
        /\ "error" \in DOMAIN logs[k].details
        /\ logs[k].details.error = error

----------------------------------------------------------------------------
\* C1: no two records of the store share a shortcode, whatever shorten
\* requests, accepted or rejected, were served.
C1_ShortcodeUnique ==
    \A i, j \in 1..Len(urlDatabase) :
        i # j => urlDatabase[i].shortcode # urlDatabase[j].shortcode

\* A custom and a generated shortcode are stored and a duplicate was rejected.
C1_Witness ==
    /\ Len(urlDatabase) = 2
    /\ Logged("Shortcode already exists")

\* C2: between requests every record's totalClicks is the length of its
\* clicks sequence, in the store and in the body of a statistics response.
C2_CountIsLength ==
    /\ \A i \in 1..Len(urlDatabase) :
          urlDatabase[i].totalClicks = Len(Clicks(i))
    /\ res.handler = "getStatistics" =>
          \A i \in 1..Len(res.body.urls) :
              res.body.urls[i].totalClicks = Len(res.body.urls[i].clicks)

\* A record was clicked twice.
C2_Witness ==
    \E i \in 1..Len(urlDatabase) :
        urlDatabase[i].totalClicks = 2 /\ Len(Clicks(i)) = 2

\* C3: a redirect for a record whose expiry time is before the request time
\* appends no click, changes no totalClicks and answers 410 'Shortened URL
\* has expired'.
C3_ExpiredNeverClicked ==
    [][ \A shortcode \in ParamSample :
          (ExpiredRecord(shortcode, clock) /\ RedirectStep(shortcode)) =>
             /\ heap' = heap
             /\ \A i \in 1..Len(urlDatabase) :
                   urlDatabase'[i].totalClicks = urlDatabase[i].totalClicks
             /\ res'.status = 410
             /\ res'.body = [error |-> "Shortened URL has expired"] ]_vars

\* An expired record that had been clicked while live was asked for again.
C3_Witness ==
    /\ res.handler = "redirectUrl"
    /\ res.status = 410
    /\ \E i \in 1..Len(urlDatabase) :
          /\ urlDatabase[i].isExpired
          /\ urlDatabase[i].totalClicks = 1


\* The REDIRECT_SUCCESS entries of the log for this shortcode, up to entry n.
Served(shortcode, n) ==
    { k \in Entries("REDIRECT_SUCCESS") :
        k <= n /\ logs[k].details.shortcode = shortcode }

\* C4: a record that served K successful redirects has totalClicks K and K
\* click events with non-decreasing timestamps, and the k-th of these
\* redirects reported the count k.
C4_ClickAccounting ==
    \A i \in 1..Len(urlDatabase) :
        LET shortcode == urlDatabase[i].shortcode
            K == Cardinality(Served(shortcode, Len(logs)))
        IN  /\ urlDatabase[i].totalClicks = K
            /\ Len(Clicks(i)) = K
            /\ \A a, b \in 1..Len(Clicks(i)) :
                  a < b => DateParse(Clicks(i)[a].timestamp)
                              <= DateParse(Clicks(i)[b].timestamp)
            /\ \A k \in Served(shortcode, Len(logs)) :
                  logs[k].details.totalClicks = Cardinality(Served(shortcode, k))

\* A record served two redirects at different times.
C4_Witness ==
    \E i \in 1..Len(urlDatabase) :
        /\ Cardinality(Served(urlDatabase[i].shortcode, Len(logs))) = 2
        /\ Clicks(i)[1].timestamp # Clicks(i)[2].timestamp

\* C5: a record's isExpired flag, once true, stays true through every
\* request; a later statistics response shows it true and a later redirect
\* answers 410.
C5_ExpiryMonotonic ==
    [][ /\ \A i \in 1..Len(urlDatabase) :
              urlDatabase[i].isExpired => urlDatabase'[i].isExpired
        /\ getStatistics =>
              \A i \in 1..Len(urlDatabase) :
                  urlDatabase[i].isExpired => res'.body.urls[i].isExpired
        /\ \A shortcode \in ParamSample :
              (/\ \E i \in 1..Len(urlDatabase) :
                     /\ urlDatabase[i].shortcode = shortcode
                     /\ urlDatabase[i].isExpired
               /\ RedirectStep(shortcode))
              => res'.status = 410 ]_vars

\* A record flagged by a redirect was then scanned by a statistics call.
C5_Witness ==
    /\ res.handler = "getStatistics"
    /\ Logged("Shortened URL has expired")
    /\ \E i \in 1..Len(res.body.urls) : res.body.urls[i].isExpired

\* C6: a redirect served at exactly the record's expiry time records a
\* click and returns the original URL; a redirect answers 410 only when the
\* time is after the expiry time, and the statistics scan raises the flag
\* only then.
C6_ExpiryBoundary ==
    [][ /\ \A shortcode \in ParamSample :
              RedirectStep(shortcode) =>
                 \A i \in 1..Len(urlDatabase) :
                    urlDatabase[i].shortcode = shortcode =>
                       /\ clock = DateParse(urlDatabase[i].expiryTime) =>
                             /\ res'.status = 200
                             /\ res'.body.originalUrl = urlDatabase[i].originalUrl
                             /\ Len(heap'[urlDatabase[i].clicks])
                                   = Len(Clicks(i)) + 1
                             /\ urlDatabase'[i].totalClicks
                                   = urlDatabase[i].totalClicks + 1
                       /\ res'.status = 410 =>
                             clock > DateParse(urlDatabase[i].expiryTime)
        /\ getStatistics =>
              \A i \in 1..Len(urlDatabase) :
                  (~urlDatabase[i].isExpired /\ urlDatabase'[i].isExpired)
                     => clock > DateParse(urlDatabase[i].expiryTime) ]_vars

\* A redirect was served at exactly the expiry time of its record.
C6_Witness ==
    /\ res.handler = "redirectUrl"
    /\ res.status = 200
    /\ \E i \in 1..Len(urlDatabase) :
          /\ call.now = DateParse(urlDatabase[i].expiryTime)
          /\ Len(Clicks(i)) = 1

\* The bodies that pass the validations before the uniqueness check and ask
\* for the shortcode of the i-th record of the store.
AskingForTaken(i) ==
    { body \in { [originalUrl |-> u, validityMinutes |-> v,
                  customShortcode |-> urlDatabase[i].shortcode] :
                    u \in UrlSample, v \in ValiditySample } :
        /\ ~NoUrl(body)
        /\ isValidUrl(body.originalUrl)
        /\ ~BadValidity(body)
        /\ HasCustom(body)
        /\ isValidShortcode(body.customShortcode)
        /\ body \in Bodies }

\* C7: a shorten request whose custom shortcode a record already has, live
\* or expired, answers 'Shortcode already exists' and adds no record.
C7_DuplicateRejected ==
    [][ \A i \in 1..Len(urlDatabase) :
          \A body \in AskingForTaken(i) :
             ShortenStep(body) =>
                /\ res'.status = 400
                /\ res'.body = [error |-> "Shortcode already exists"]
                /\ urlDatabase' = urlDatabase
                /\ heap' = heap ]_vars

\* The shortcode of a record flagged expired was asked for again.
C7_Witness ==
    /\ Len(urlDatabase) = 1
    /\ urlDatabase[1].isExpired
    /\ res.handler = "shortenUrl"
    /\ res.body = [error |-> "Shortcode already exists"]

\* C8: in a statistics response a record is flagged expired exactly when
\* the time of the request is after the record's expiry time.
C8_StatisticsExpiry ==
    res.handler = "getStatistics" =>
        \A i \in 1..Len(res.body.urls) :
            res.body.urls[i].isExpired
                <=> call.now > DateParse(res.body.urls[i].expiryTime)

\* A statistics response shows an expired record and one that is at
\* exactly its expiry time.
C8_Witness ==
    /\ res.handler = "getStatistics"
    /\ \E i, j \in 1..Len(res.body.urls) :
          /\ res.body.urls[i].isExpired
          /\ ~res.body.urls[j].isExpired
          /\ call.now = DateParse(res.body.urls[j].expiryTime)

\* The sum of totalClicks over the first n records of the store.
ClicksUpTo[n \in 0..Len(urlDatabase)] ==
    IF n = 0 THEN 0 ELSE ClicksUpTo[n - 1] + urlDatabase[n].totalClicks

\* C9: a statistics response reports as totalUrls the number of records
\* ever created, as activeUrls the number of records not flagged expired
\* and as totalClicks the sum of the records' totalClicks.
C9_StatisticsCounts ==
    res.handler = "getStatistics" =>
        /\ res.body.totalUrls = Len(urlDatabase)
        /\ res.body.totalUrls = Cardinality(Entries("URL_SHORTENED_SUCCESS"))
        /\ res.body.activeUrls =
              Cardinality({ i \in 1..Len(urlDatabase) :
                              urlDatabase[i].isExpired = FALSE })
        /\ res.body.totalClicks = ClicksUpTo[Len(urlDatabase)]
        /\ res.body.totalClicks = Cardinality(Entries("REDIRECT_SUCCESS"))

\* One live and one expired record: totalUrls 2 and activeUrls 1.
C9_Witness ==
    /\ res.handler = "getStatistics"
    /\ res.body.totalUrls = 2
    /\ res.body.activeUrls = 1
    /\ \E i \in 1..2 : urlDatabase[i].isExpired

\* C10: the record copies of a statistics response read the same whatever
\* requests are served after the response.
C10_SnapshotFrozen ==
    [][ snapshot' = snapshot =>
           Json(snapshot, heap') = Json(snapshot, heap) ]_vars


\* C11: a shorten request that has entered the handler returns, also when
\* every shortcode the generator can produce is in the store.
C11_ShortenTerminates == pending.active ~> ~pending.active

\* C17: the uniqueness check of a shorten request still holds when the
\* request inserts its record, so no two records share a shortcode.
C17_CheckThenInsertAtomic ==
    /\ \A i, j \in 1..Len(urlDatabase) :
          i # j => urlDatabase[i].shortcode # urlDatabase[j].shortcode
    /\ (pending.active /\ pending.stage = "insert") =>
          \A i \in 1..Len(urlDatabase) :
              urlDatabase[i].shortcode # pending.shortcode

\* A request has passed its uniqueness check after a retry, with records of
\* earlier requests in the store, and has not inserted yet.
C17_Witness ==
    /\ pending.active
    /\ pending.stage = "insert"
    /\ ~HasCustom(pending.body)
    /\ Len(urlDatabase) = 2


\* The step served a shorten or redirect request that ended in an error.
ErrorStep ==
    /\ logs' # logs
    /\ res'.handler \in { "shortenUrl", "redirectUrl" }
    /\ res'.status # 200

C14_ExpiryFromCreation ==
    \A i \in 1..Len(urlDatabase) :
        DateParse(urlDatabase[i].expiryTime) =
            DateParse(urlDatabase[i].createdAt)
              + (urlDatabase[i].validityMinutes.num
                    \div urlDatabase[i].validityMinutes.den) * 60000

\* The body is one the handler is to reject: no URL, a malformed URL, a
\* validity that is missing, zero, negative or not an integer, a custom
\* shortcode with a character that is no letter or digit, or a custom
\* shortcode that a record has.
Rejectable(body) ==
    \/ "originalUrl" \notin DOMAIN body
    \/ body.originalUrl \in { "", "not a url" }
    \/ "validityMinutes" \notin DOMAIN body
    \/ body.validityMinutes.num <= 0
    \/ body.validityMinutes.num % body.validityMinutes.den # 0
    \/ /\ "customShortcode" \in DOMAIN body
       /\ \/ \E k \in 1..Len(body.customShortcode) :
                body.customShortcode[k] \notin AlphaNum
          \/ \E i \in 1..Len(urlDatabase) :
                urlDatabase[i].shortcode = body.customShortcode

\* C15: a shorten request that is rejected adds no record and changes none:
\* a step that changes the store is no rejected shorten request and no
\* shorten request with a body to reject.
C15_RejectedLeavesStore ==
    [][ (urlDatabase' # urlDatabase \/ heap' # heap) =>
          /\ ~(res'.handler = "shortenUrl" /\ res'.status # 200)
          /\ res'.handler = "shortenUrl" =>
                \A body \in Bodies : Rejectable(body) => ~ShortenStep(body) ]_vars

\* A request with a validity that is no positive integer was rejected with
\* a record in the store.
C15_Witness ==
    /\ Len(urlDatabase) = 1
    /\ res.handler = "shortenUrl"
    /\ res.body = [error |-> "Validity must be a positive integer"]

\* C16: a redirect for a non-empty shortcode that no record has answers 404
\* 'Shortened URL not found', logs no REDIRECT_SUCCESS and leaves every
\* record and its clicks as they were.
C16_UnknownShortcode ==
    [][ \A shortcode \in ParamSample \ { << >> } :
          (/\ \A i \in 1..Len(urlDatabase) :
                 urlDatabase[i].shortcode # shortcode
           /\ RedirectStep(shortcode))
          => /\ res'.status = 404
             /\ res'.body = [error |-> "Shortened URL not found"]
             /\ urlDatabase' = urlDatabase
             /\ heap' = heap
             /\ { k \in 1..Len(logs') : logs'[k].action = "REDIRECT_SUCCESS" }
                   = Entries("REDIRECT_SUCCESS") ]_vars

\* An unknown shortcode was asked for with a clicked record in the store.
C16_Witness ==
    /\ res.handler = "redirectUrl"
    /\ res.status = 404
    /\ \E i \in 1..Len(urlDatabase) : urlDatabase[i].totalClicks = 1

\* The step served a shorten request that stored a record.
ShortenedStep ==
    /\ res'.handler = "shortenUrl"
    /\ res'.status = 200
    /\ Len(urlDatabase') = Len(urlDatabase) + 1

\* C18: the shortcode a successful shorten request returns is a non-empty
\* string of letters and digits that no record had before the request, it is
\* the shortcode of the record the request stored, and it has 6 characters
\* when the request supplied no custom shortcode.
C18_ReturnedShortcode ==
    [][ ShortenedStep =>
          LET shortcode == res'.body.shortcode
          IN  /\ Len(shortcode) >= 1
              /\ \A k \in 1..Len(shortcode) : shortcode[k] \in AlphaNum
              /\ \A i \in 1..Len(urlDatabase) :
                    urlDatabase[i].shortcode # shortcode
              /\ urlDatabase'[Len(urlDatabase')].shortcode = shortcode
              /\ \/ Len(shortcode) = 6
                 \/ \A body \in Bodies :
                       ("customShortcode" \in DOMAIN body =>
                           body.customShortcode = << >>)
                       => ~ShortenStep(body) ]_vars

\* A generated shortcode was returned with a custom one in the store.
C18_Witness ==
    /\ res.handler = "shortenUrl"
    /\ res.status = 200
    /\ Len(urlDatabase) = 2
    /\ urlDatabase[1].shortcode = Sabc123
    /\ res.body.shortcode = urlDatabase[2].shortcode
    /\ res.body.shortcode \notin CustomSample

\* C19: a redirect for the shortcode of a record that has not expired
\* answers 200 with the record's originalUrl and success true, appends one
\* click to the record's clicks, adds one to its totalClicks and leaves its
\* other fields, every other record and the number of records as they were.
C19_RedirectFrame ==
    [][ \A shortcode \in ParamSample, i \in 1..Len(urlDatabase) :
          (/\ urlDatabase[i].shortcode = shortcode
           /\ clock <= DateParse(urlDatabase[i].expiryTime)
           /\ RedirectStep(shortcode))
          => /\ res'.status = 200
             /\ res'.body = [originalUrl |-> urlDatabase[i].originalUrl,
                             success |-> TRUE]
             /\ Len(urlDatabase') = Len(urlDatabase)
             /\ Len(heap') = Len(heap)
             /\ urlDatabase'[i] =
                   [urlDatabase[i] EXCEPT !.totalClicks = @ + 1]
             /\ Len(Clicks(i)') = Len(Clicks(i)) + 1
             /\ SubSeq(Clicks(i)', 1, Len(Clicks(i))) = Clicks(i)
             /\ \A j \in 1..Len(urlDatabase) \ { i } :
                   /\ urlDatabase'[j] = urlDatabase[j]
                   /\ Clicks(j)' = Clicks(j) ]_vars

\* The second of two records was served once, the first never.
C19_Witness ==
    /\ res.handler = "redirectUrl"
    /\ res.status = 200
    /\ Len(urlDatabase) = 2
    /\ urlDatabase[1].totalClicks = 0
    /\ Len(Clicks(1)) = 0
    /\ urlDatabase[2].totalClicks = 1
    /\ Len(Clicks(2)) = 1

\* The limit the audit query is to apply: the default 100 for a limit that
\* is missing, no number, zero or negative.
ClampedLimit(query) ==
    LET p == parseInt(query)
    IN  IF p.nan \/ p.val <= 0 THEN 100 ELSE p.val

\* The last n entries of the log, oldest first, all of them when there are
\* fewer than n.
Recent(n) ==
    LET k == IF n < Len(logs) THEN n ELSE Len(logs)
    IN  SubSeq(logs, Len(logs) - k + 1, Len(logs))

\* C13: the audit query answers 200 with the last `limit` entries of the
\* log, oldest first, where a missing, zero or negative limit counts as 100,
\* and with no more entries than the log has.
C13_RecentClamped ==
    [][ \A query \in QuerySample :
          getLogs(query)
          => /\ res'.status = 200
             /\ res'.body.logs = Recent(ClampedLimit(query))
             /\ Len(res'.body.logs) <= Len(logs) ]_vars

\* C20: every step leaves the entries of the log and their order as they
\* were and adds entries only at the end, and the audit query reports as
\* total the number of entries appended so far.
C20_AppendOnly ==
    [][ /\ Len(logs') >= Len(logs)
        /\ SubSeq(logs', 1, Len(logs)) = logs
        /\ res'.handler = "getLogs" => res'.body.total = Len(logs') ]_vars

\* The audit query reported more entries than it returned, after requests
\* of three kinds.
C20_Witness ==
    /\ res.handler = "getLogs"
    /\ res.body.total = 6
    /\ Len(res.body.logs) = 2
    /\ res.body.logs = SubSeq(logs, 5, 6)
    /\ logs[1].action = "URL_SHORTEN_ATTEMPT"
    /\ logs[3].action = "REDIRECT_ATTEMPT"

\* The fields of a record that are set when it is created.
FixedFields ==
    { "id", "originalUrl", "shortcode", "shortenedUrl", "createdAt",
      "expiryTime", "validityMinutes", "clicks" }

\* C21: every step keeps every record at its place in the store with its
\* created fields, changes its clicks and totalClicks only by appending one
\* click and adding one to the count, together, and changes its isExpired
\* only from false to true.
C21_RecordFrame ==
    [][ /\ Len(urlDatabase') >= Len(urlDatabase)
        /\ \A i \in 1..Len(urlDatabase) :
              /\ \A f \in FixedFields : urlDatabase'[i][f] = urlDatabase[i][f]
              /\ urlDatabase[i].isExpired => urlDatabase'[i].isExpired
              /\ \/ /\ Clicks(i)' = Clicks(i)
                    /\ urlDatabase'[i].totalClicks = urlDatabase[i].totalClicks
                 \/ /\ Len(Clicks(i)') = Len(Clicks(i)) + 1
                    /\ SubSeq(Clicks(i)', 1, Len(Clicks(i))) = Clicks(i)
                    /\ urlDatabase'[i].totalClicks =
                          urlDatabase[i].totalClicks + 1 ]_vars

\* A record that was served once has been flagged expired by the
\* statistics scan.
C21_Witness ==
    /\ res.handler = "getStatistics"
    /\ Len(urlDatabase) = 1
    /\ urlDatabase[1].isExpired
    /\ urlDatabase[1].totalClicks = 1
    /\ Len(Clicks(1)) = 1

\* C22: no two records of the store have the same id.
C22_IdUnique ==
    \A i \in 1..Len(urlDatabase), j \in 1..Len(urlDatabase) :
        i # j => urlDatabase[i].id # urlDatabase[j].id

\* The body passes the checks made before the custom shortcode is looked
\* at, and supplies a custom shortcode that is not one or more letters or
\* digits.
MalformedCustom(body) ==
    /\ "originalUrl" \in DOMAIN body
    /\ body.originalUrl = "https://example.com/a"
    /\ "validityMinutes" \in DOMAIN body
    /\ body.validityMinutes.num > 0
    /\ body.validityMinutes.num % body.validityMinutes.den = 0
    /\ "customShortcode" \in DOMAIN body
    /\ \/ body.customShortcode = << >>
       \/ \E k \in 1..Len(body.customShortcode) :
             body.customShortcode[k] \notin AlphaNum

\* C23: a shorten request whose custom shortcode is not one or more letters
\* or digits, the empty string included, is answered 400 'Shortcode must be
\* alphanumeric' and stores no record.
C23_MalformedCustomRejected ==
    [][ \A body \in Bodies :
          (MalformedCustom(body) /\ ShortenStep(body))
          => /\ res'.status = 400
             /\ res'.body = [error |-> "Shortcode must be alphanumeric"]
             /\ urlDatabase' = urlDatabase ]_vars

\* The first of the five checks the body fails, in the order missing URL,
\* malformed URL, invalid validity, malformed custom shortcode, duplicate
\* shortcode; 0 when it fails none.  (The empty custom shortcode, which has
\* no character to object to, is C23's subject.)
FirstFailure(body) ==
    IF "originalUrl" \notin DOMAIN body \/ body.originalUrl = "" THEN 1
    ELSE IF body.originalUrl = "not a url" THEN 2
    ELSE IF \/ "validityMinutes" \notin DOMAIN body
            \/ body.validityMinutes.num <= 0
            \/ body.validityMinutes.num % body.validityMinutes.den # 0 THEN 3
    ELSE IF /\ "customShortcode" \in DOMAIN body
            /\ \E k \in 1..Len(body.customShortcode) :
                  body.customShortcode[k] \notin AlphaNum THEN 4
    ELSE IF /\ "customShortcode" \in DOMAIN body
            /\ \E i \in 1..Len(urlDatabase) :
                  urlDatabase[i].shortcode = body.customShortcode THEN 5
    ELSE 0

\* The messages of the five failures, in the order of the checks.
FailureMessage ==
    << "Original URL is required",
       "Invalid URL format",
       "Validity must be a positive integer",
       "Shortcode must be alphanumeric",
       "Shortcode already exists" >>

\* The response the step gave is the one the first failing check of the
\* body calls for.
AnswersFirstFailure(body) ==
    IF FirstFailure(body) = 0 THEN res'.status = 200
    ELSE /\ res'.status = 400
         /\ res'.body = [error |-> FailureMessage[FirstFailure(body)]]

\* C24: a shorten request is answered with status 400 and the message of
\* the first check its body fails, in the order missing URL, malformed URL,
\* invalid validity, malformed custom shortcode, duplicate shortcode, with
\* 200 when it fails none, and the five messages differ from one another.
C24_FirstFailureReported ==
    [][ /\ \A a \in 1..5, b \in 1..5 :
              a # b => FailureMessage[a] # FailureMessage[b]
        /\ (res'.handler = "shortenUrl" /\ logs' # logs) =>
              \A body \in Bodies :
                  AnswersFirstFailure(body) \/ ~ShortenStep(body) ]_vars

\* A malformed and then a duplicate custom shortcode were rejected with a
\* record in the store.
C24_Witness ==
    /\ Len(urlDatabase) = 1
    /\ Len(logs) = 6
    /\ logs[4].action = "URL_SHORTEN_ERROR"
    /\ logs[4].details.error = "Shortcode must be alphanumeric"
    /\ res.handler = "shortenUrl"
    /\ res.status = 400
    /\ res.body = [error |-> "Shortcode already exists"]

\* C25: a redirect request appends REDIRECT_ATTEMPT and then one outcome
\* entry, REDIRECT_SUCCESS when it answers 200 and REDIRECT_ERROR otherwise;
\* a shorten request appends URL_SHORTEN_ATTEMPT and then one of
\* URL_SHORTENED_SUCCESS and URL_SHORTEN_ERROR in the same way; and a
\* success entry reports a change the store has: the click counted with the
\* count it logs, the record stored with the shortcode it logs.
C25_AttemptThenOutcome ==
    [][ (logs' # logs /\ res'.handler \in { "shortenUrl", "redirectUrl" }) =>
          LET n       == Len(logs)
              outcome == logs'[n + 2]
          IN  /\ Len(logs') = n + 2
              /\ SubSeq(logs', 1, n) = logs
              /\ res'.handler = "redirectUrl" =>
                    /\ logs'[n + 1].action = "REDIRECT_ATTEMPT"
                    /\ outcome.action =
                          (IF res'.status = 200 THEN "REDIRECT_SUCCESS"
                           ELSE "REDIRECT_ERROR")
                    /\ res'.status = 200 =>
                          \E i \in 1..Len(urlDatabase) :
                              /\ urlDatabase'[i].shortcode =
                                    outcome.details.shortcode
                              /\ urlDatabase'[i].totalClicks =
                                    outcome.details.totalClicks
                              /\ urlDatabase[i].totalClicks =
                                    outcome.details.totalClicks - 1
                              /\ Len(Clicks(i)') = Len(Clicks(i)) + 1
              /\ res'.handler = "shortenUrl" =>
                    /\ logs'[n + 1].action = "URL_SHORTEN_ATTEMPT"
                    /\ outcome.action =
                          (IF res'.status = 200 THEN "URL_SHORTENED_SUCCESS"
                           ELSE "URL_SHORTEN_ERROR")
                    /\ res'.status = 200 =>
                          /\ Len(urlDatabase') = Len(urlDatabase) + 1
                          /\ urlDatabase'[Len(urlDatabase')].shortcode =
                                outcome.details.shortcode ]_vars

\* A shorten request and a redirect request succeeded and a second redirect
\* request failed.
C25_Witness ==
    /\ Len(logs) = 6
    /\ [k \in 1..6 |-> logs[k].action] =
          << "URL_SHORTEN_ATTEMPT", "URL_SHORTENED_SUCCESS",
             "REDIRECT_ATTEMPT", "REDIRECT_SUCCESS",
             "REDIRECT_ATTEMPT", "REDIRECT_ERROR" >>

\* C26: no click of a record has a timestamp later than the record's
\* expiryTime.
C26_ClickBeforeExpiry ==
    \A i \in 1..Len(urlDatabase) :
        \A k \in 1..Len(Clicks(i)) :
            DateParse(Clicks(i)[k].timestamp)
                <= DateParse(urlDatabase[i].expiryTime)

\* C27: the log has as many REDIRECT_SUCCESS entries as the totalClicks of
\* all records add up to, and as many URL_SHORTENED_SUCCESS entries as the
\* store has records.
C27_SuccessEntriesMatchStore ==
    /\ Cardinality(Entries("REDIRECT_SUCCESS")) = ClicksUpTo[Len(urlDatabase)]
    /\ Cardinality(Entries("URL_SHORTENED_SUCCESS")) = Len(urlDatabase)

\* Two records are in the store and one of them was served once.
C27_Witness ==
    /\ Len(urlDatabase) = 2
    /\ Cardinality(Entries("REDIRECT_SUCCESS")) = 1
    /\ Cardinality(Entries("URL_SHORTENED_SUCCESS")) = 2

====
